---- MODULE Spec2Model ----
(***************************************************************************)
(* McSAS: Monte-Carlo fit of a small-angle scattering curve.               *)
(*                                                                         *)
(* Spec     models src/mcsas/mcsas.py: McSAS.calc -> analyse -> mcFit      *)
(*          (repeated) -> histogram, with the stop flag the GUI may raise. *)
(* SpecMemsave models MCFit of the older src/McSAS.py, run with and         *)
(*          without Memsave on the same proposals.                         *)
(* SpecData models the entry of McSAS.calc: setData with the construction  *)
(*          of the SASData, clip, checkParameters, up to the first fit.    *)
(* SpecRange models McSAS.rangeInfo, the moments over a sub-range, called  *)
(*          on a result with either weighting.                             *)
(* SpecParam models ParameterNumerical of cutesnake/algorithm/parameter.py *)
(*          under setValue and setValueRange calls.                        *)
(*                                                                         *)
(* Numbers.  The code works on floats.  Here intensities, volumes and      *)
(* parameter values are integers, chi-squared and the scaling factors are  *)
(* exact rationals <<numerator, denominator>> (denominator 0: <<1,0>> is   *)
(* inf, <<0,0>> is NaN), and the running sum of squared volumes, which the *)
(* code updates through a square root, is a fixed-point number with        *)
(* VsScale units per 1.  All products stay below 2^31.                     *)
(***************************************************************************)
EXTENDS Integers, Sequences, FiniteSets, TLC

\* ------------------------------------------------------------------ bounds
MaxContribs == 2        \* numContribs ranges over 1..MaxContribs
MaxReps == 2            \* numReps
MaxRetriesBound == 1    \* maxRetries ranges over 0..MaxRetriesBound
MaxIter == 2            \* maxIterations
HistBins == 3           \* histogramBins of the one active parameter
VsScale == 100          \* fixed-point units per 1 of the squared-volume sum

\* ------------------------------------------------------------ the data set
\* dataset.prepared: columns q, I, IError (mcsas.py:590, 638-639)
Q == <<1, 2, 3>>
IntObs == <<9, 5, 2>>
IntError == <<1, 1, 1>>
NumQ == Len(Q)

\* convergenceCriterion as a rational (default 1, here 1/2)
minConvergence == <<1, 2>>

\* valueRange of the model's one active parameter (radius)
valueRange == <<2, 5>>

\* ------------------------------------------------------- rational numbers
Inf == <<1, 0>>
NaN == <<0, 0>>

IsNaN(a) == a[2] = 0 /\ a[1] = 0
IsInf(a) == a[2] = 0 /\ a[1] # 0

\* a/b < c/d for a, c >= 0 and b, d > 0, by continued fractions so that no
\* cross product is formed
RECURSIVE FracLess(_, _, _, _)
FracLess(a, b, c, d) ==
    LET qa == a \div b
        qc == c \div d
        ra == a % b
        rc == c % d
    IN  IF qa # qc THEN qa < qc
        ELSE IF rc = 0 THEN FALSE
        ELSE IF ra = 0 THEN TRUE
        ELSE FracLess(d, rc, b, ra)

\* float comparison x < y: False whenever either side is NaN
RatLess(x, y) ==
    IF IsNaN(x) \/ IsNaN(y) THEN FALSE
    ELSE IF IsInf(x) THEN FALSE
    ELSE IF IsInf(y) THEN TRUE
    ELSE FracLess(x[1], x[2], y[1], y[2])

RatGreater(x, y) == RatLess(y, x)

RatEq(x, y) ==
    IF IsNaN(x) \/ IsNaN(y) THEN FALSE
    ELSE ~RatLess(x, y) /\ ~RatLess(y, x)

\* ---------------------------------------------------------------- helpers
RECURSIVE SeqSum(_)
SeqSum(s) == IF s = <<>> THEN 0 ELSE Head(s) + SeqSum(Tail(s))

RECURSIVE SeqProd(_)
SeqProd(s) == IF s = <<>> THEN 1 ELSE Head(s) * SeqProd(Tail(s))

\* largest s in lo..hi with s*s <= x, by bisection
RECURSIVE ISqrtIn(_, _, _)
ISqrtIn(x, lo, hi) ==
    IF lo >= hi THEN lo
    ELSE LET mid == (lo + hi + 1) \div 2
         IN  IF mid * mid <= x THEN ISqrtIn(x, mid, hi)
             ELSE ISqrtIn(x, lo, mid - 1)

\* numpy sqrt on the fixed-point squared-volume sum: sqrt(v / VsScale) in
\* units of 1/VsScale, rounded down
SqrtFp(v) == ISqrtIn(v * VsScale, 0, 40000)

\* ------------------------------------------------------ the scattering model
\* Form factor of the model at q for parameter value p: a pure function,
\* largest at small q*p, falling with q*p (models/sphere.py ff)
ff(q, p) ==
    LET x == q * p
    IN  IF x <= 1 THEN 4 ELSE IF x <= 3 THEN 3 ELSE IF x <= 6 THEN 2 ELSE 1

\* Compensated volume p^(3c) with compensationExponent c = 1/3, in units in
\* which 4*pi/3 is 1 (models/sphere.py vol)
vol(p) == p

\* Real particle volume: vol with compensationExponent = 1
volReal(p) == p * p * p

\* model.smear: identity by default, otherwise a resolution kernel; the
\* kernel modelled averages each point with its left neighbour
smear(kind, I) ==
    IF kind = "identity" THEN I
    ELSE [i \in 1..Len(I) |->
            IF i = 1 THEN I[1] ELSE (I[i - 1] + I[i]) \div 2]

\* intensity of one contribution: ff^2 * v^2 over q
contribIntensityOf(p, v) == [i \in 1..NumQ |-> ff(Q[i], p) * ff(Q[i], p) * v * v]

\* calcModel: total intensity and volume of each row
calcModelIt(rs) ==
    [i \in 1..NumQ |->
        SeqSum([c \in 1..Len(rs) |-> contribIntensityOf(rs[c], vol(rs[c]))[i]])]

calcModelVset(rs) == [c \in 1..Len(rs) |-> vol(rs[c])]

SumSq(vs) == SeqSum([c \in 1..Len(vs) |-> vs[c] * vs[c]])

\* ParameterFloat.generate: values * (max - min) + min, values drawn by
\* RandomUniform from [0, 1), here the grid u / GenSteps, u in 0..GenSteps-1
GenSteps == valueRange[2] - valueRange[1]
generate(u) == (u * (valueRange[2] - valueRange[1])) \div GenSteps + valueRange[1]

\* ScatteringModel.generateParameters(count = 1): the values one call can give
GeneratedValues == {generate(u) : u \in 0..(GenSteps - 1)}

\* --------------------------------------------- optimScalingAndBackground
\* Weighted sums of the least-squares problem.  The weight 1/IntError^2 of
\* a point is held as the integer ErrProd2/IntError^2, ErrProd2 the product
\* of all squared uncertainties; chi-squared is divided by ErrProd2 again.
ErrProd2 == SeqProd([i \in 1..NumQ |-> IntError[i] * IntError[i]])
Wt(i) == ErrProd2 \div (IntError[i] * IntError[i])
LsS == SeqSum([i \in 1..NumQ |-> Wt(i)])
LsSy == SeqSum([i \in 1..NumQ |-> Wt(i) * IntObs[i]])
LsSyy == SeqSum([i \in 1..NumQ |-> Wt(i) * IntObs[i] * IntObs[i]])
LsSx(x) == SeqSum([i \in 1..NumQ |-> Wt(i) * x[i]])
LsSxx(x) == SeqSum([i \in 1..NumQ |-> Wt(i) * x[i] * x[i]])
LsSxy(x) == SeqSum([i \in 1..NumQ |-> Wt(i) * x[i] * IntObs[i]])

\* variant: the background is fitted whether or not it is asked for
optimScalingAndBackground_FitsBackground(x, vs, background) ==
    LET S == LsS
        Sx == LsSx(x)
        Sy == LsSy
        Sxx == LsSxx(x)
        Sxy == LsSxy(x)
        Syy == LsSyy
        Dx == S * Sxx - Sx * Sx
    IN  IF Sxx = 0 THEN [A |-> NaN, B |-> NaN, conval |-> NaN]
        ELSE IF Dx = 0
        THEN [A |-> <<0, 1>>,
              B |-> <<Sy, S>>,
              conval |-> <<S * Syy - Sy * Sy, S * NumQ * ErrProd2>>]
        ELSE [A |-> <<vs * (S * Sxy - Sx * Sy), VsScale * Dx>>,
              B |-> <<Sy * Sxx - Sx * Sxy, Dx>>,
              conval |-> <<(S * Syy - Sy * Sy) * Dx
                             - (S * Sxy - Sx * Sy) * (S * Sxy - Sx * Sy),
                           S * Dx * NumQ * ErrProd2>>]

\* The least-squares optimum of (IntObs - A*x/vs - B)/IntError over A (and B
\* when background is set), x = total intensity, vs = squared-volume sum in
\* fixed point.  Returns the scaling A, the background B and the reduced
\* chi-squared csqr_v1 at the optimum.  An all-zero x gives NaN; without
\* background B is set to 0.0 whatever the fit gave.
optimScalingAndBackground(x, vs, background) ==
    LET S == LsS
        Sx == LsSx(x)
        Sy == LsSy
        Sxx == LsSxx(x)
        Sxy == LsSxy(x)
        Syy == LsSyy
        Dx == S * Sxx - Sx * Sx
    IN  IF Sxx = 0
        THEN [A |-> NaN,
              B |-> IF background THEN NaN ELSE <<0, 1>>,
              conval |-> NaN]
        ELSE IF ~background
        THEN [A |-> <<vs * Sxy, VsScale * Sxx>>,
              B |-> <<0, 1>>,
              conval |-> <<Syy * Sxx - Sxy * Sxy, Sxx * NumQ * ErrProd2>>]
        ELSE IF Dx = 0
        THEN [A |-> <<0, 1>>,
              B |-> <<Sy, S>>,
              conval |-> <<S * Syy - Sy * Sy, S * NumQ * ErrProd2>>]
        ELSE [A |-> <<vs * (S * Sxy - Sx * Sy), VsScale * Dx>>,
              B |-> <<Sy * Sxx - Sx * Sxy, Dx>>,
              conval |-> <<(S * Syy - Sy * Sy) * Dx
                             - (S * Sxy - Sx * Sy) * (S * Sxy - Sx * Sy),
                           S * Dx * NumQ * ErrProd2>>]

\* deltaRhoSquared (default 1) and the fixed-point resolution of a volume
\* fraction
deltaRhoSquared == 1
FracScale == 1000

\* fixed-point units per 1 of a histogram bin edge
EdgeScale == 10

\* the stack of priors holds up to MaxPriors tables
MaxPriors == 2

\* ------------------------------------------------------------------ state
VARIABLES
    numContribs,      \* numContribs parameter
    maxRetries,       \* McSASParameters.maxRetries
    startFromMinimum, \* McSASParameters.startFromMinimum
    smearKind,        \* which smear the model supplies
    findBackground,   \* findBackground parameter
    prior,            \* McSASParameters.prior (<<>> when none)
    priors,           \* McSASParameters.priors (<<>> when none)
    priorsflag,       \* analyse: the priors are handed out one by one
    priorsGiven,      \* history: the priors as configured
    stop,             \* self.stop
    pc,               \* where calc/analyse/mcFit stands
    nr,               \* analyse: repetition index
    nt,               \* analyse: attempts of the current repetition
    convergence,      \* analyse: chi-squared returned by the last mcFit
    contributions,    \* analyse: contributions[:, :, r], one table per rep
    result,           \* self.result
    details,          \* analyse: the details of the last mcFit call
    rset,             \* mcFit: the contribution table
    vset,             \* mcFit: volume of each row
    it,               \* mcFit: total intensity
    vst,              \* mcFit: sum of squared volumes (fixed point)
    sc,               \* mcFit: <<scaling, background>>
    conval,           \* mcFit: current chi-squared
    ri,               \* mcFit: swap index
    numIter,          \* mcFit: iterations done
    numMoves,         \* mcFit: accepted moves
    numNotAccepted,   \* mcFit: rejected moves since the last accepted one
    hist,             \* what histogram() added to self.result
    exitReason,       \* history: how analyse ended
    mcFitCalls,       \* history: mcFit calls of the current repetition
    reached,          \* history: some run of the current repetition has
                      \*          had a chi-squared within the criterion
    repsStarted,      \* history: repetitions for which mcFit was called
    repsCompleted,    \* history: repetitions ended by a converged run (or
                      \*          with nothing to fit)
    accepted,         \* history: chi-squared of the accepted moves of the run
    lastMove,         \* history: outcome of the last swap iteration
    iterated,         \* history: a swap iteration was made in this analysis
    initTable,        \* history: the table the current run started from
    memPc,            \* McSAS.py MCFit: where the two runs stand
    memA,             \* McSAS.py MCFit: the run with Memsave = False
    memB,             \* McSAS.py MCFit: the run with Memsave = True
    memFed            \* history: the rows proposed so far

\* calc, from its call to the first fit of the first MC run
VARIABLES
    dataPc,             \* where calc stands before analyse
    rawQ,               \* kwargs Q (<<>> when not given)
    rawI,               \* kwargs I (<<>> when not given)
    rawE,               \* kwargs IError (<<>> when not given)
    contribParamBounds, \* McSASParameters.contribParamBounds as given
    maskNegativeInt,    \* McSASParameters.maskNegativeInt
    maskZeroInt,        \* McSASParameters.maskZeroInt
    uncertainty,        \* SASData.ui.value, in units of 1/eMin[2]
    validIndices,       \* SASData._validIndices
    radiusRange         \* the valueRange of the radius parameter

\* rangeInfo, called on the result of calc
VARIABLES
    resultContribs,       \* self.result[0]['contribs'], one table per rep
    resultVolumeFraction, \* self.result[paramIndex]['volumeFraction']
    resultNumberFraction, \* self.result[paramIndex]['numberFraction']
    givenRange,           \* the valueRange argument of rangeInfo
    rangeInfoResult       \* history: what rangeInfo returned, by weighting

\* a ParameterNumerical
VARIABLES
    paramValue,           \* _value
    paramValueRange       \* _valueRange

configVars == <<numContribs, maxRetries, startFromMinimum, smearKind,
                findBackground, priorsGiven>>
priorVars == <<prior, priors, priorsflag>>
driverVars == <<nr, nt, convergence, contributions, result, details>>
fitVars == <<rset, vset, it, vst, sc, conval, ri, numIter, numMoves,
             numNotAccepted>>
histVars == <<exitReason, mcFitCalls, reached, repsStarted, repsCompleted,
              accepted, lastMove, iterated, initTable>>
memVars == <<memPc, memA, memB, memFed>>
dataVars == <<dataPc, rawQ, rawI, rawE, contribParamBounds, maskNegativeInt,
              maskZeroInt, uncertainty, validIndices, radiusRange>>
rangeVars == <<resultContribs, resultVolumeFraction, resultNumberFraction,
               givenRange, rangeInfoResult>>
paramVars == <<paramValue, paramValueRange>>
toolVars == <<rangeVars, paramVars>>
calcVars == <<configVars, priorVars, stop, pc, driverVars, fitVars, hist,
              histVars>>
mainVars == <<calcVars, dataVars>>
vars == <<mainVars, memVars, toolVars>>

numReps == MaxReps

\* the value of an argument that is not given
None == <<>>

\* calc's own state while only analyse and what follows it are looked at
dataIdle ==
    /\ dataPc = "idle"
    /\ rawQ = None
    /\ rawI = None
    /\ rawE = None
    /\ contribParamBounds = valueRange
    /\ maskNegativeInt = FALSE
    /\ maskZeroInt = FALSE
    /\ uncertainty = <<>>
    /\ validIndices = {}
    /\ radiusRange = valueRange
maxIterations == MaxIter

\* rangeInfo and the parameter while they are not looked at
toolsIdle ==
    /\ resultContribs = <<>>
    /\ resultVolumeFraction = <<>>
    /\ resultNumberFraction = <<>>
    /\ givenRange = <<0, 0>>
    /\ rangeInfoResult = <<>>
    /\ paramValue = 0
    /\ paramValueRange = <<0, 0>>

\* a prior the caller may supply: a table of n rows, of values of an earlier
\* analysis or of 0, a scatterer without volume
PriorTables(n) ==
    {[c \in 1..n |-> v] : v \in {0, valueRange[2] - 2, valueRange[2] - 1}}

\* the stacks of priors the caller may supply (priors[:, :, k], k < L)
PriorStacks(n) ==
    UNION {[1..L -> PriorTables(n)] : L \in 1..MaxPriors}

\* calc (mcsas.py:264-295) up to the call of analyse, and analyse up to its
\* first mcFit call (mcsas.py:501-529)
Init ==
    /\ numContribs \in 1..MaxContribs
    /\ maxRetries \in 0..MaxRetriesBound
    /\ startFromMinimum \in BOOLEAN
    /\ smearKind \in {"identity", "blur"}
    /\ findBackground \in BOOLEAN
    /\ prior \in {<<>>} \cup UNION {PriorTables(m) : m \in 1..MaxContribs}
    /\ priors \in {<<>>} \cup PriorStacks(numContribs)
    /\ priorsflag = FALSE
    /\ priorsGiven = priors
    /\ stop = FALSE
    /\ pc = "call"
    /\ nr = 0
    /\ nt = 0
    /\ convergence = Inf
    /\ contributions = [r \in 1..numReps |-> [c \in 1..numContribs |-> 0]]
    /\ result = <<>>
    /\ details = <<>>
    /\ rset = <<>>
    /\ vset = <<>>
    /\ it = [i \in 1..NumQ |-> 0]
    /\ vst = 0
    /\ sc = <<NaN, NaN>>
    /\ conval = Inf
    /\ ri = 0
    /\ numIter = 0
    /\ numMoves = 0
    /\ numNotAccepted = 0
    /\ hist = <<>>
    /\ exitReason = "running"
    /\ mcFitCalls = 0
    /\ reached = FALSE
    /\ repsStarted = {}
    /\ repsCompleted = {}
    /\ accepted = <<>>
    /\ lastMove = "none"
    /\ iterated = FALSE
    /\ initTable = <<>>
    /\ memPc = "idle"
    /\ memA = <<>>
    /\ memB = <<>>
    /\ memFed = <<>>
    /\ dataIdle
    /\ toolsIdle

\* the stop button: CalcHandler.stop sets self._algo.stop = True
SetStop ==
    /\ pc # "done"
    /\ ~stop
    /\ stop' = TRUE
    /\ UNCHANGED <<dataVars, memVars, toolVars,
                   configVars, priorVars, pc, driverVars, fitVars, hist,
                   histVars>>

\* ------------------------------------------------------------------ mcFit
\* startFromMinimum: every row gets half the lower bound (pi/q.max() for a
\* zero bound)
startValue ==
    LET mb == IF valueRange[1] < valueRange[2] THEN valueRange[1]
              ELSE valueRange[2]
        mb2 == IF mb = 0 THEN 3 \div Q[NumQ] ELSE mb
    IN  mb2 \div 2

\* the initial contribution tables mcFit can build (mcsas.py:599-628)
initialSets(pr) ==
    IF pr = <<>>
    THEN IF startFromMinimum
         THEN {[c \in 1..numContribs |-> startValue]}
         ELSE [1..numContribs -> GeneratedValues]
    ELSE {pr}

\* analyse, at the start of a repetition: are the priors handed out?
\* (mcsas.py:521)
usePriors == (prior = <<>> /\ priors # <<>>) \/ priorsflag

\* the index of the prior of repetition r (mcsas.py:525), counted from 1
priorIndex(r) == (r % Len(priors)) + 1

\* McSASParameters.prior as the next mcFit call finds it (mcsas.py:521-525)
priorForRun ==
    IF nt = 0 /\ usePriors THEN priors[priorIndex(nr)] ELSE prior

\* variant: the loop goes on whatever the number of iterations
loopCondition_NoIterationLimit ==
    /\ Len(vset) > 1
    /\ RatGreater(conval, minConvergence)
    /\ ~stop

\* variant: the loop goes on however few rows there are
loopCondition_NoSizeTest ==
    /\ RatGreater(conval, minConvergence)
    /\ numIter < maxIterations
    /\ ~stop

\* the loop condition of the MC procedure (mcsas.py:677-680)
loopCondition ==
    /\ Len(vset) > 1
    /\ RatGreater(conval, minConvergence)
    /\ numIter < maxIterations
    /\ ~stop

\* variant: the comparison the wrong way round
isImprovement_Inverted(convalt, cv) == RatLess(cv, convalt)

\* is the trial an improvement? (mcsas.py:701)
isImprovement(convalt, cv) == RatLess(convalt, cv)

\* the squared-volume sum after swapping a row of volume vo for one of
\* volume vt (mcsas.py:695)
vstestOf(vs, vo, vt) ==
    LET d == SqrtFp(vs) - vo * VsScale
    IN  (d * d) \div VsScale + vt * vt * VsScale

\* variant: the intensity of the replaced row is not taken out
itestOf_NoSubtract(total, rs, vs, r, rt, vtt) ==
    LET itt == contribIntensityOf(rt, vtt)
    IN  smear(smearKind, [i \in 1..NumQ |-> total[i] + itt[i]])

\* the total intensity after swapping row r for (rt, vtt) (mcsas.py:689-694)
itestOf(total, rs, vs, r, rt, vtt) ==
    LET io == contribIntensityOf(rs[r + 1], vs[r + 1])
        itt == contribIntensityOf(rt, vtt)
    IN  smear(smearKind, [i \in 1..NumQ |-> total[i] - io[i] + itt[i]])

\* variant: the swap index is not taken modulo the number of rows
nextIndex_NoWrap(r, n) == r + 1

\* move to the next row of the table, to the first after the last
\* (mcsas.py:745); n is numContribs as mcFit holds it, the number of rows
nextIndex(r, n) == (r + 1) % n

\* variant: a rejected move is not counted
rejectMove_Uncounted(sct) ==
    /\ lastMove' = "rejected"
    /\ UNCHANGED <<rset, sc, conval, it, vset, vst, numMoves, numNotAccepted,
                   accepted, prior, priors, reached>>

\* variant: the scaling and background of the trial are kept
rejectMove_KeepsTrialScaling(sct) ==
    /\ sc' = sct
    /\ numNotAccepted' = numNotAccepted + 1
    /\ lastMove' = "rejected"
    /\ UNCHANGED <<rset, conval, it, vset, vst, numMoves, accepted, prior,
                   priors, reached>>

\* the trial is no improvement (mcsas.py:732-735): sct, the scaling and
\* background fitted to it, is dropped with it
rejectMove(sct) ==
    /\ numNotAccepted' = numNotAccepted + 1
    /\ lastMove' = "rejected"
    /\ UNCHANGED <<rset, sc, conval, it, vset, vst, numMoves, accepted, prior,
                   priors, reached>>

\* analyse from the start of a repetition (mcsas.py:521-529), or of a retry,
\* to the mcFit call (533) and mcFit up to the start of the MC loop
McFitInit ==
    /\ pc = "call"
    /\ prior' = priorForRun
    /\ priorsflag' = (priorsflag \/ (nt = 0 /\ usePriors))
    /\ \E rs \in initialSets(priorForRun) :
         LET vs == calcModelVset(rs)
             total == smear(smearKind, calcModelIt(rs))
             v2 == SumSq(vs) * VsScale
             fit == optimScalingAndBackground(total, v2, findBackground)
         IN  /\ rset' = rs
             /\ initTable' = rs
             /\ vset' = vs
             /\ it' = total
             /\ vst' = v2
             /\ sc' = <<fit.A, fit.B>>
             /\ conval' = fit.conval
             /\ reached' = (reached \/ ~RatGreater(fit.conval, minConvergence))
    /\ nt' = nt + 1
    /\ ri' = 0
    /\ numIter' = 0
    /\ numMoves' = 0
    /\ numNotAccepted' = 0
    /\ pc' = "fit"
    /\ mcFitCalls' = mcFitCalls + 1
    /\ repsStarted' = repsStarted \cup {nr}
    /\ accepted' = <<>>
    /\ lastMove' = "none"
    /\ UNCHANGED <<dataVars, memVars, toolVars,
                   configVars, priors, stop, nr, convergence,
                   contributions, result, details, hist, exitReason,
                   repsCompleted, iterated>>

\* one pass of the MC loop (mcsas.py:681-746)
McFitIter ==
    /\ pc = "fit"
    /\ loopCondition
    /\ \E rt \in GeneratedValues :
         LET vtt == vol(rt)
             itest == itestOf(it, rset, vset, ri, rt, vtt)
             vstest == vstestOf(vst, vset[ri + 1], vtt)
             fit == optimScalingAndBackground(itest, vstest, findBackground)
         IN  IF isImprovement(fit.conval, conval)
             THEN /\ rset' = [rset EXCEPT ![ri + 1] = rt]
                  /\ sc' = <<fit.A, fit.B>>
                  /\ conval' = fit.conval
                  /\ it' = itest
                  /\ vset' = [vset EXCEPT ![ri + 1] = vtt]
                  /\ vst' = vstest
                  /\ numMoves' = numMoves + 1
                  /\ numNotAccepted' = 0
                  /\ accepted' = Append(accepted, fit.conval)
                  /\ lastMove' = "accepted"
                  /\ reached' =
                       (reached \/ ~RatGreater(fit.conval, minConvergence))
                  \* rset is the prior array itself when a prior is set,
                  \* and that a view of the priors when they are handed out
                  /\ prior' = IF prior = <<>> THEN prior
                              ELSE [rset EXCEPT ![ri + 1] = rt]
                  /\ priors' = IF priorsflag
                               THEN [priors EXCEPT ![priorIndex(nr)] =
                                        [rset EXCEPT ![ri + 1] = rt]]
                               ELSE priors
             ELSE rejectMove(<<fit.A, fit.B>>)
    /\ ri' = nextIndex(ri, Len(rset))
    /\ numIter' = numIter + 1
    /\ iterated' = TRUE
    /\ UNCHANGED <<dataVars, memVars, toolVars,
                   configVars, priorsflag, stop, pc, driverVars, hist,
                   exitReason, mcFitCalls, repsStarted, repsCompleted,
                   initTable>>

\* can numpy assign a table of these rows to contributions[:, :, nr]?  Only
\* one of numContribs rows, or of a single row, which is broadcast
storable(rs) == Len(rs) = numContribs \/ Len(rs) = 1

\* contributions[:, :, nr] after the assignment of rs
storedTable(rs) ==
    [c \in 1..numContribs |-> IF Len(rs) = 1 THEN rs[1] ELSE rs[c]]

\* details as mcFit fills it (mcsas.py:761-762), elapsed left out
detailsOf == [numIterations |-> numIter, numMoves |-> numMoves]

\* the end of mcFit (mcsas.py:749-777) and the assignment of what it returns
\* in analyse (mcsas.py:534-537), which raises ValueError on a table of the
\* wrong shape
McFitReturn ==
    /\ pc = "fit"
    /\ ~loopCondition
    /\ LET fit == optimScalingAndBackground(smear(smearKind, it),
                                            SumSq(vset) * VsScale,
                                            findBackground)
       IN  /\ sc' = <<fit.A, fit.B>>
           /\ conval' = fit.conval
           /\ reached' = (reached \/ ~RatGreater(fit.conval, minConvergence))
           /\ IF storable(rset)
              THEN /\ contributions' =
                        [contributions EXCEPT ![nr + 1] = storedTable(rset)]
                   /\ convergence' = fit.conval
                   /\ details' = detailsOf
                   /\ pc' = "ret"
                   /\ UNCHANGED exitReason
              ELSE /\ exitReason' = "error"
                   /\ pc' = "done"
                   /\ UNCHANGED <<contributions, convergence, details>>
    /\ UNCHANGED <<dataVars, memVars, toolVars,
                   configVars, priorVars, stop, nr, nt, result, rset,
                   vset, it, vst, ri, numIter, numMoves, numNotAccepted, hist,
                   mcFitCalls, repsStarted, repsCompleted, accepted, lastMove,
                   iterated, initTable>>

\* ---------------------------------------------------------------- analyse
\* the repetition is over (mcsas.py:550-570): go on with the next one, or
\* store the results after the last
repetitionDone ==
    /\ repsCompleted' =
         IF numContribs <= 1 \/ ~RatGreater(convergence, minConvergence)
         THEN repsCompleted \cup {nr}
         ELSE repsCompleted
    /\ IF nr + 1 < numReps
       THEN /\ nr' = nr + 1
            /\ nt' = 0
            /\ convergence' = Inf
            /\ mcFitCalls' = 0
            /\ reached' = FALSE
            /\ pc' = "call"
            /\ UNCHANGED <<result, exitReason>>
       ELSE /\ result' = <<[contribs |-> contributions, fitQ |-> Q]>>
            /\ exitReason' = "stored"
            /\ pc' = "analysed"
            /\ UNCHANGED <<nr, nt, convergence, mcFitCalls, reached>>
    /\ UNCHANGED <<dataVars, memVars, toolVars,
                   configVars, priorVars, stop, contributions, details,
                   fitVars,
                   hist, repsStarted, accepted, lastMove, iterated, initTable>>

\* mcsas.py:538-539: nothing to fit
AnalyseBreak ==
    /\ pc = "ret"
    /\ numContribs <= 1
    /\ repetitionDone

\* variant: on stop, analyse stores the repetitions completed so far
AnalyseStop_Stores ==
    /\ pc = "ret"
    /\ numContribs > 1
    /\ stop
    /\ exitReason' = "stopped"
    /\ result' = <<[contribs |-> SubSeq(contributions, 1, nr), fitQ |-> Q]>>
    /\ pc' = "analysed"
    /\ UNCHANGED <<dataVars, memVars, toolVars,
                   configVars, priorVars, stop, nr, nt, convergence,
                   contributions, details, fitVars, hist, mcFitCalls, reached,
                   repsStarted, repsCompleted, accepted, lastMove, iterated,
                   initTable>>

\* variant: on stop, analyse only leaves the retry loop
AnalyseStop_Break ==
    /\ pc = "ret"
    /\ numContribs > 1
    /\ stop
    /\ repetitionDone

\* mcsas.py:540-542: the stop flag is seen
AnalyseStop ==
    /\ pc = "ret"
    /\ numContribs > 1
    /\ stop
    /\ exitReason' = "stopped"
    /\ pc' = "analysed"
    /\ UNCHANGED <<dataVars, memVars, toolVars,
                   configVars, priorVars, stop, driverVars, fitVars, hist,
                   mcFitCalls, reached, repsStarted, repsCompleted, accepted,
                   lastMove, iterated, initTable>>

\* variant: after too many attempts analyse goes on with the next repetition
AnalyseGiveUp_GoesOn ==
    /\ pc = "ret"
    /\ numContribs > 1
    /\ ~stop
    /\ nt > maxRetries
    /\ exitReason' = "gaveup"
    /\ IF nr + 1 < numReps
       THEN /\ nr' = nr + 1
            /\ nt' = 0
            /\ convergence' = Inf
            /\ mcFitCalls' = 0
            /\ reached' = FALSE
            /\ pc' = "call"
            /\ UNCHANGED result
       ELSE /\ result' = <<[contribs |-> contributions, fitQ |-> Q]>>
            /\ pc' = "analysed"
            /\ UNCHANGED <<nr, nt, convergence, mcFitCalls, reached>>
    /\ UNCHANGED <<dataVars, memVars, toolVars,
                   configVars, priorVars, stop, contributions, details,
                   fitVars,
                   hist, repsStarted, repsCompleted, accepted, lastMove,
                   iterated, initTable>>

\* mcsas.py:543-549: too many attempts
AnalyseGiveUp ==
    /\ pc = "ret"
    /\ numContribs > 1
    /\ ~stop
    /\ nt > maxRetries
    /\ exitReason' = "gaveup"
    /\ pc' = "analysed"
    /\ UNCHANGED <<dataVars, memVars, toolVars,
                   configVars, priorVars, stop, driverVars, fitVars, hist,
                   mcFitCalls, reached, repsStarted, repsCompleted, accepted,
                   lastMove, iterated, initTable>>

\* mcsas.py:530: the retry loop goes round again
AnalyseRetry ==
    /\ pc = "ret"
    /\ numContribs > 1
    /\ ~stop
    /\ nt <= maxRetries
    /\ RatGreater(convergence, minConvergence)
    /\ pc' = "call"
    /\ UNCHANGED <<dataVars, memVars, toolVars,
                   configVars, priorVars, stop, driverVars, fitVars, hist,
                   histVars>>

\* mcsas.py:530: the retry loop ends, the run has converged
AnalyseConverged ==
    /\ pc = "ret"
    /\ numContribs > 1
    /\ ~stop
    /\ nt <= maxRetries
    /\ ~RatGreater(convergence, minConvergence)
    /\ repetitionDone

\* -------------------------------------------------------------- histogram
RECURSIVE GCD(_, _)
GCD(a, b) == IF b = 0 THEN a ELSE GCD(b, a % b)

RECURSIVE Pow(_, _)
Pow(b, e) == IF e = 0 THEN 1 ELSE b * Pow(b, e - 1)

\* a rational as a fixed-point number with FracScale units per 1 (NaN as 0)
RatToFp(a) ==
    IF a[2] = 0 THEN 0
    ELSE LET n == IF a[1] < 0 THEN 0 - a[1] ELSE a[1]
             g == GCD(n, a[2])
         IN  ((a[1] \div g) * FracScale) \div (a[2] \div g)

\* p >= histogramXLowerEdge[b], the edges being numpy.linspace(min, max,
\* bins + 1) or 10**linspace(log10(min), log10(max), bins + 1)
\* (mcsas.py:944-955); compared without forming the edge
atOrAboveEdge(p, b, scale) ==
    LET lo == valueRange[1]
        hi == valueRange[2]
    IN  IF scale = "linear"
        THEN (p - lo) * HistBins >= b * (hi - lo)
        ELSE Pow(p, HistBins) * Pow(lo, b) >= Pow(hi, b) * Pow(lo, HistBins)

\* binMask of bin b (0-based) for a row of value p (mcsas.py:982-983)
binMask(p, b, scale) ==
    /\ atOrAboveEdge(p, b, scale)
    /\ ~atOrAboveEdge(p, b + 1, scale)

\* volume fraction of each row of one repetition (mcsas.py:881-912); the
\* NaN of a row without volume is held as 0, as in RatToFp
volumeFractionOf(rs) ==
    LET vs == calcModelVset(rs)
        total == smear(smearKind, calcModelIt(rs))
        fit == optimScalingAndBackground(total, VsScale, findBackground)
        a == RatToFp(fit.A)
    IN  [c \in 1..Len(rs) |->
            IF volReal(rs[c]) = 0 THEN 0
            ELSE (a * vs[c] * vs[c]) \div (volReal(rs[c]) * deltaRhoSquared)]

\* largest r in lo..hi with r^n <= x, by bisection
RECURSIVE IRootIn(_, _, _, _)
IRootIn(x, n, lo, hi) ==
    IF lo >= hi THEN lo
    ELSE LET mid == (lo + hi + 1) \div 2
         IN  IF Pow(mid, n) <= x THEN IRootIn(x, n, mid, hi)
             ELSE IRootIn(x, n, lo, mid - 1)

\* histogramXLowerEdge: the HistBins + 1 edges numpy.linspace(lo, hi,
\* bins + 1), or 10**linspace(log10(lo), log10(hi), bins + 1), in fixed
\* point (mcsas.py:944-955)
binEdges(lo, hi, scale) ==
    [e \in 1..(HistBins + 1) |->
        LET b == e - 1
        IN  IF scale = "linear"
            THEN ((lo * HistBins + b * (hi - lo)) * EdgeScale) \div HistBins
            ELSE IRootIn(Pow(lo, HistBins - b) * Pow(hi, b)
                            * Pow(EdgeScale, HistBins),
                         HistBins, 0, hi * EdgeScale)]

\* what histogram() stores for the one active parameter, the bin edges being
\* laid out between lo and hi (mcsas.py:848-1032)
histogramWith(contribs, scale, lo, hi) ==
    LET vf == [r \in 1..Len(contribs) |-> volumeFractionOf(contribs[r])]
        edges == binEdges(lo, hi, scale)
    IN  [histogramXScale |-> scale,
         reps |-> Len(contribs),
         histogramXLowerEdge |-> edges,
         histogramXMean |->
            [b \in 1..HistBins |-> (edges[b] + edges[b + 1]) \div 2],
         histogramXWidth |-> [b \in 1..HistBins |-> edges[b + 1] - edges[b]],
         volumeFraction |-> vf,
         totalVolumeFraction |-> [r \in 1..Len(contribs) |-> SeqSum(vf[r])],
         volumeHistogramRepetitionsY |->
            [r \in 1..Len(contribs) |->
                [b \in 1..HistBins |->
                    SeqSum([c \in 1..Len(contribs[r]) |->
                        IF binMask(contribs[r][c], b - 1, scale)
                        THEN vf[r][c] ELSE 0])]]]

\* smallest and largest value of the tables of all repetitions
contribsMin(contribs) ==
    CHOOSE v \in {contribs[r][c] : r \in 1..Len(contribs),
                                   c \in 1..Len(contribs[1])} :
        \A r \in 1..Len(contribs) : \A c \in 1..Len(contribs[r]) :
            v <= contribs[r][c]

contribsMax(contribs) ==
    CHOOSE v \in {contribs[r][c] : r \in 1..Len(contribs),
                                   c \in 1..Len(contribs[1])} :
        \A r \in 1..Len(contribs) : \A c \in 1..Len(contribs[r]) :
            v >= contribs[r][c]

\* variant: the bin edges span the values found instead of the value range
histogramOf_DataRange(contribs, scale) ==
    histogramWith(contribs, scale, contribsMin(contribs), contribsMax(contribs))

\* histogram(): the edges span the valueRange of the parameter
histogramOf(contribs, scale) ==
    histogramWith(contribs, scale, valueRange[1], valueRange[2])

\* ------------------------------------------------------------------- calc
\* mcsas.py:297-298: analyse left no result
CalcNoResult ==
    /\ pc = "analysed"
    /\ Len(result) = 0
    /\ pc' = "done"
    /\ UNCHANGED <<dataVars, memVars, toolVars,
                   configVars, priorVars, stop, driverVars, fitVars, hist,
                   histVars>>

\* mcsas.py:299: histogram()
CalcHistogram ==
    /\ pc = "analysed"
    /\ Len(result) # 0
    /\ \E scale \in {"linear", "log"} :
         hist' = <<histogramOf(result[1].contribs, scale)>>
    /\ pc' = "done"
    /\ UNCHANGED <<dataVars, memVars, toolVars,
                   configVars, priorVars, stop, driverVars, fitVars,
                   histVars>>

Next ==
    \/ SetStop
    \/ McFitInit
    \/ McFitIter
    \/ McFitReturn
    \/ AnalyseBreak
    \/ AnalyseStop
    \/ AnalyseGiveUp
    \/ AnalyseRetry
    \/ AnalyseConverged
    \/ CalcNoResult
    \/ CalcHistogram

Spec == Init /\ [][Next]_vars

\* the steps of calc, analyse and mcFit, one sequential program; only the
\* stop button is left to the user
Progress ==
    \/ McFitInit
    \/ McFitIter
    \/ McFitReturn
    \/ AnalyseBreak
    \/ AnalyseStop
    \/ AnalyseGiveUp
    \/ AnalyseRetry
    \/ AnalyseConverged
    \/ CalcNoResult
    \/ CalcHistogram

\* ------------------------------------------- McSAS.py: MCFit, both modes
\* The older McSAS.MCFit keeps the intensity of every row (Iset) unless
\* Memsave is set; with Memsave it recomputes the intensity of the row to be
\* replaced.  The two modes are run side by side on the same initial table
\* and the same proposed rows.  _Iopt is called with Background = True.
Ncontrib == numContribs
Convcrit == minConvergence
Maxiter == MaxIter

\* McSAS.py:1135-1144, no prior
oldInitialSets ==
    IF startFromMinimum
    THEN {[c \in 1..Ncontrib |-> startValue]}
    ELSE [1..Ncontrib -> GeneratedValues]

\* column sums of Iset: sum(Iset, 0)
sumRows(Iset) ==
    [i \in 1..NumQ |-> SeqSum([c \in 1..Len(Iset) |-> Iset[c][i]])]

\* McSAS.py:1181-1187: It built up row by row
RECURSIVE accumulateIt(_, _, _)
accumulateIt(Rset, Vset, n) ==
    IF n = 1 THEN contribIntensityOf(Rset[1], Vset[1])
    ELSE LET before == accumulateIt(Rset, Vset, n - 1)
             row == contribIntensityOf(Rset[n], Vset[n])
         IN  [i \in 1..NumQ |-> before[i] + row[i]]

\* McSAS.py:1166-1200: the state of a run before the MC loop
oldInit(Memsave, Rset0) ==
    LET Vset == calcModelVset(Rset0)
        Iset == IF Memsave THEN <<>>
                ELSE [c \in 1..Len(Rset0) |->
                        contribIntensityOf(Rset0[c], Vset[c])]
        It0 == IF Memsave THEN accumulateIt(Rset0, Vset, Len(Rset0))
               ELSE sumRows(Iset)
        It == smear(smearKind, It0)
        Vst == SumSq(Vset) * VsScale
        fit == optimScalingAndBackground(It, Vst, TRUE)
    IN  [Rset |-> Rset0, Iset |-> Iset, It |-> It, Vset |-> Vset,
         Vst |-> Vst, Sc |-> <<fit.A, fit.B>>, Conval |-> fit.conval,
         Ri |-> 0, Niter |-> 0, Nmoves |-> 0, Nnotaccepted |-> 0,
         decisions |-> <<>>]

\* McSAS.py:1223
oldLoopCondition(st) ==
    /\ RatGreater(st.Conval, Convcrit)
    /\ st.Niter < Maxiter

\* variant: with Memsave the intensity of the replaced row is not taken out
oldItest_MemsaveKeepsRow(Memsave, st, Itt) ==
    LET out == IF Memsave
               THEN [i \in 1..NumQ |-> 0]
               ELSE st.Iset[st.Ri + 1]
    IN  smear(smearKind, [i \in 1..NumQ |-> st.It[i] - out[i] + Itt[i]])

\* McSAS.py:1229-1240: the trial intensity
oldItest(Memsave, st, Itt) ==
    LET out == IF Memsave
               THEN contribIntensityOf(st.Rset[st.Ri + 1], st.Vset[st.Ri + 1])
               ELSE st.Iset[st.Ri + 1]
    IN  smear(smearKind, [i \in 1..NumQ |-> st.It[i] - out[i] + Itt[i]])

\* McSAS.py:1247-1256, 1282: the trial is taken over
oldAccept(Memsave, st, Rt, Itt, Itest, Vtt, Vstest, fit) ==
    LET taken == [st EXCEPT !.Rset[st.Ri + 1] = Rt,
                            !.It = Itest,
                            !.Vset[st.Ri + 1] = Vtt,
                            !.Vst = Vstest,
                            !.Sc = <<fit.A, fit.B>>,
                            !.Conval = fit.conval,
                            !.Nmoves = st.Nmoves + 1,
                            !.Nnotaccepted = 0 - 1]
    IN  IF Memsave THEN taken
        ELSE [taken EXCEPT !.Iset[st.Ri + 1] = Itt]

\* McSAS.py:1224-1288: one pass of the MC loop with proposed row Rt
oldStep(Memsave, st, Rt) ==
    LET Vtt == vol(Rt)
        Itt == contribIntensityOf(Rt, Vtt)
        Itest == oldItest(Memsave, st, Itt)
        Vstest == vstestOf(st.Vst, st.Vset[st.Ri + 1], Vtt)
        fit == optimScalingAndBackground(Itest, Vstest, TRUE)
        better == RatLess(fit.conval, st.Conval)
        next == IF better
                THEN oldAccept(Memsave, st, Rt, Itt, Itest, Vtt, Vstest, fit)
                ELSE st
    IN  [next EXCEPT !.Ri = (st.Ri + 1) % Len(st.Rset),
                     !.Nnotaccepted = next.Nnotaccepted + 1,
                     !.Niter = st.Niter + 1,
                     !.decisions = Append(st.decisions, better)]

\* McSAS.py:1305-1309: the last refit
oldFinal(st) ==
    LET fit == optimScalingAndBackground(smear(smearKind, st.It),
                                         SumSq(st.Vset) * VsScale, TRUE)
    IN  [st EXCEPT !.Sc = <<fit.A, fit.B>>, !.Conval = fit.conval]

InitMem ==
    /\ numContribs \in 1..MaxContribs
    /\ maxRetries = 0
    /\ startFromMinimum \in BOOLEAN
    /\ smearKind \in {"identity", "blur"}
    /\ findBackground = TRUE
    /\ prior = <<>>
    /\ priors = <<>>
    /\ priorsflag = FALSE
    /\ priorsGiven = <<>>
    /\ stop = FALSE
    /\ pc = "done"
    /\ nr = 0
    /\ nt = 0
    /\ convergence = Inf
    /\ contributions = <<>>
    /\ result = <<>>
    /\ details = <<>>
    /\ rset = <<>>
    /\ vset = <<>>
    /\ it = <<>>
    /\ vst = 0
    /\ sc = <<NaN, NaN>>
    /\ conval = Inf
    /\ ri = 0
    /\ numIter = 0
    /\ numMoves = 0
    /\ numNotAccepted = 0
    /\ hist = <<>>
    /\ exitReason = "running"
    /\ mcFitCalls = 0
    /\ reached = FALSE
    /\ repsStarted = {}
    /\ repsCompleted = {}
    /\ accepted = <<>>
    /\ lastMove = "none"
    /\ iterated = FALSE
    /\ initTable = <<>>
    /\ memPc = "idle"
    /\ memA = <<>>
    /\ memB = <<>>
    /\ memFed = <<>>
    /\ dataIdle
    /\ toolsIdle

\* both runs are set up from the same table
MemInit ==
    /\ memPc = "idle"
    /\ \E Rset0 \in oldInitialSets :
         /\ memA' = oldInit(FALSE, Rset0)
         /\ memB' = oldInit(TRUE, Rset0)
    /\ memPc' = "loop"
    /\ memFed' = <<>>
    /\ UNCHANGED <<mainVars, toolVars>>

\* the same proposed row goes to each run whose loop is still going
MemStep ==
    /\ memPc = "loop"
    /\ oldLoopCondition(memA) \/ oldLoopCondition(memB)
    /\ \E Rt \in GeneratedValues :
         /\ memA' = IF oldLoopCondition(memA) THEN oldStep(FALSE, memA, Rt)
                    ELSE memA
         /\ memB' = IF oldLoopCondition(memB) THEN oldStep(TRUE, memB, Rt)
                    ELSE memB
         /\ memFed' = Append(memFed, Rt)
    /\ UNCHANGED <<memPc, mainVars, toolVars>>

\* both loops are over
MemReturn ==
    /\ memPc = "loop"
    /\ ~oldLoopCondition(memA)
    /\ ~oldLoopCondition(memB)
    /\ memA' = oldFinal(memA)
    /\ memB' = oldFinal(memB)
    /\ memPc' = "done"
    /\ UNCHANGED <<memFed, mainVars, toolVars>>

NextMem ==
    \/ MemInit
    \/ MemStep
    \/ MemReturn

SpecMemsave == InitMem /\ [][NextMem]_vars

\* ------------------------------------- calc: the data and the settings
\* a column of the data has up to MaxPoints values
MaxPoints == 2

\* the values a column may hold
QValues == {1, 2}
IValues == {0 - 4, 0, 4}
EValues == {0, 1, 3}

\* the columns the caller may pass
Columns(vals) == UNION {[1..n -> vals] : n \in 1..MaxPoints}

\* the bounds the caller may configure for the radius
BoundsGiven == {<<2, 5>>, <<5, 2>>, <<2, 2>>}

\* SASData._eMin, the minimum fractional uncertainty (default 0.01, here
\* 1/2), as a rational
eMin == <<1, 2>>

\* SASData._prepareUncertainty: the working uncertainty of every point, in
\* units of 1/eMin[2].  The values are finite, so none is reset to inf.
prepareUncertainty(I, e, hasError) ==
    [k \in 1..Len(I) |->
        LET floor == eMin[1] * I[k]
        IN  IF ~hasError THEN floor
            ELSE IF floor > eMin[2] * e[k] THEN floor ELSE eMin[2] * e[k]]

\* SASData._prepareValidIndices: the points kept, the q range being open
prepareValidIndices(I, maskZero, maskNegative) ==
    {k \in 1..Len(I) :
        /\ maskZero => I[k] # 0
        /\ maskNegative => I[k] > 0}

\* the magnitude a range limit is cut down to (1e200 in parameter.py)
rangeLimit == 20000

\* ParameterNumerical.setValueRange: the range stored for newRange, the
\* smaller limit raised to -rangeLimit, the larger lowered to rangeLimit
setValueRange(newRange) ==
    LET minVal == IF newRange[1] <= newRange[2] THEN newRange[1]
                  ELSE newRange[2]
        maxVal == IF newRange[1] <= newRange[2] THEN newRange[2]
                  ELSE newRange[1]
        minCut == IF minVal > 0 - rangeLimit THEN minVal ELSE 0 - rangeLimit
        maxCut == IF maxVal < rangeLimit THEN maxVal ELSE rangeLimit
    IN  <<minCut, maxCut>>

\* calc is entered with the arguments of the caller
InitData ==
    /\ numContribs = MaxContribs
    /\ maxRetries = 0
    /\ startFromMinimum = FALSE
    /\ smearKind = "identity"
    /\ findBackground = TRUE
    /\ prior = <<>>
    /\ priors = <<>>
    /\ priorsflag = FALSE
    /\ priorsGiven = <<>>
    /\ stop = FALSE
    /\ pc = "done"
    /\ nr = 0
    /\ nt = 0
    /\ convergence = Inf
    /\ contributions = <<>>
    /\ result = <<>>
    /\ details = <<>>
    /\ rset = <<>>
    /\ vset = <<>>
    /\ it = <<>>
    /\ vst = 0
    /\ sc = <<NaN, NaN>>
    /\ conval = Inf
    /\ ri = 0
    /\ numIter = 0
    /\ numMoves = 0
    /\ numNotAccepted = 0
    /\ hist = <<>>
    /\ exitReason = "running"
    /\ mcFitCalls = 0
    /\ reached = FALSE
    /\ repsStarted = {}
    /\ repsCompleted = {}
    /\ accepted = <<>>
    /\ lastMove = "none"
    /\ iterated = FALSE
    /\ initTable = <<>>
    /\ memPc = "idle"
    /\ memA = <<>>
    /\ memB = <<>>
    /\ memFed = <<>>
    /\ dataPc = "setData"
    /\ rawQ \in Columns(QValues) \cup {None}
    /\ rawI \in Columns(IValues) \cup {None}
    /\ rawE \in Columns(EValues) \cup {None}
    /\ contribParamBounds \in BoundsGiven
    /\ maskNegativeInt \in BOOLEAN
    /\ maskZeroInt \in BOOLEAN
    /\ uncertainty = <<>>
    /\ validIndices = {}
    /\ radiusRange = <<1, 10000>>
    /\ toolsIdle

\* numpy.vstack raises ValueError unless the columns given are equally long
sameLengths ==
    /\ Len(rawQ) = Len(rawI)
    /\ rawE # None => Len(rawE) = Len(rawI)

\* McSAS.setData (mcsas.py:309-354) with the construction of the SASData
\* (sasdata.py:318-355).  A missing q or I and columns of different lengths
\* raise ValueError; without an error column rawArray[:, 2] raises
\* IndexError.
setData ==
    /\ dataPc = "setData"
    /\ IF rawQ = None \/ rawI = None \/ ~sameLengths \/ rawE = None
       THEN /\ dataPc' = "error"
            /\ UNCHANGED <<uncertainty, validIndices>>
       ELSE /\ validIndices' = prepareValidIndices(rawI, FALSE, FALSE)
            /\ uncertainty' = prepareUncertainty(rawI, rawE, rawE # None)
            /\ dataPc' = "clip"
    /\ UNCHANGED <<rawQ, rawI, rawE, contribParamBounds, maskNegativeInt,
                   maskZeroInt, radiusRange, calcVars, memVars, toolVars>>

\* calc: dataset.clip with the mask settings (mcsas.py:273-276)
clip ==
    /\ dataPc = "clip"
    /\ validIndices' = prepareValidIndices(rawI, maskZeroInt, maskNegativeInt)
    /\ dataPc' = "check"
    /\ UNCHANGED <<rawQ, rawI, rawE, contribParamBounds, maskNegativeInt,
                   maskZeroInt, uncertainty, radiusRange, calcVars, memVars, toolVars>>

\* McSAS.checkParameters (mcsas.py:383-404): nothing is tested; the bounds
\* go to the radius by Sphere.updateParamBounds
checkParameters ==
    /\ dataPc = "check"
    /\ radiusRange' = setValueRange(contribParamBounds)
    /\ dataPc' = "analyse"
    /\ UNCHANGED <<rawQ, rawI, rawE, contribParamBounds, maskNegativeInt,
                   maskZeroInt, uncertainty, validIndices, calcVars, memVars, toolVars>>

\* calc calls analyse, analyse calls mcFit, mcFit comes to its first fit
\* (mcsas.py:295, 501-532, 590-642); intensity.max() raises ValueError on
\* a data set without points
analyseStart ==
    /\ dataPc = "analyse"
    /\ dataPc' = IF validIndices = {} THEN "error" ELSE "running"
    /\ UNCHANGED <<rawQ, rawI, rawE, contribParamBounds, maskNegativeInt,
                   maskZeroInt, uncertainty, validIndices, radiusRange,
                   calcVars, memVars, toolVars>>

NextData ==
    \/ setData
    \/ clip
    \/ checkParameters
    \/ analyseStart

SpecData == InitData /\ [][NextData]_vars

\* ------------------------------------------------------------- rangeInfo
\* fixed-point units per 1 of a moment
MomentScale == 100

\* the values the contributions of a result may have, and their volume or
\* number fractions in units of the smallest
RangeValues == {1, 3, 5}
FractionValues == {1, 2}

\* the valueRange arguments rangeInfo may be called with
RangesGiven == {<<1, 5>>, <<3, 5>>, <<5, 1>>, <<0, 6>>, <<6, 9>>}

\* inputs of rangeInfo: a result of n contributions and R repetitions
ResultTables(n, R) == [1..R -> [1..n -> RangeValues]]
ResultFractions(n, R) == [1..R -> [1..n -> FractionValues]]

\* a number in fixed point, as a rational
Fp(x) == <<x, MomentScale>>

\* numerator / denominator in fixed point, with the nan and inf of numpy for
\* a zero denominator
FpDiv(n, d) ==
    IF d = 0 THEN (IF n = 0 THEN NaN ELSE Inf)
    ELSE Fp((n * MomentScale) \div d)

\* validRange (mcsas.py:1228-1229)
validRange(p, rg) ==
    LET lo == IF rg[1] <= rg[2] THEN rg[1] ELSE rg[2]
        hi == IF rg[1] <= rg[2] THEN rg[2] ELSE rg[1]
    IN  p > lo /\ p < hi

\* the moments of one repetition (mcsas.py:1225-1252): rs the values of the
\* parameter, vf and nf the volume and number fractions of the contributions
momentsOf(rs, vf, nf, rg, weighting) ==
    LET S == MomentScale
        w == [c \in 1..Len(rs) |->
                IF ~validRange(rs[c], rg) THEN 0
                ELSE IF weighting = "volume" THEN vf[c] ELSE nf[c]]
        sw == SeqSum(w)
        empty == \A c \in 1..Len(rs) : ~validRange(rs[c], rg)
        mu == (SeqSum([c \in 1..Len(rs) |-> rs[c] * w[c]]) * S) \div sw
        dev == [c \in 1..Len(rs) |-> rs[c] * S - mu]
        dev2 == [c \in 1..Len(rs) |-> (dev[c] * dev[c]) \div S]
        var == SeqSum([c \in 1..Len(rs) |-> dev2[c] * w[c]]) \div sw
        sigma == ISqrtIn((IF var < 0 THEN 0 - var ELSE var) * S, 0, 40000)
        sigma3 == (sigma * sigma * sigma) \div (S * S)
        sigma4 == (sigma * sigma * sigma * sigma) \div (S * S * S)
        m3 == SeqSum([c \in 1..Len(rs) |->
                        ((dev2[c] * dev[c]) \div S) * w[c]])
        m4 == SeqSum([c \in 1..Len(rs) |->
                        ((dev2[c] * dev2[c]) \div S) * w[c]])
    IN  IF empty
        THEN [val |-> Fp(0), mu |-> NaN, var |-> NaN, skw |-> NaN,
              krt |-> NaN]
        ELSE [val |-> Fp(sw * S),
              mu |-> Fp(mu),
              var |-> Fp(var),
              skw |-> FpDiv(m3, sw * sigma3),
              krt |-> IF weighting = "volume" THEN FpDiv(m4, sw * sigma3)
                      ELSE FpDiv(m4, sw * sigma4)]

\* numpy mean over the repetitions
meanOverReps(xs) ==
    IF \E r \in 1..Len(xs) : IsNaN(xs[r]) THEN NaN
    ELSE IF \E r \in 1..Len(xs) : IsInf(xs[r]) THEN Inf
    ELSE Fp(SeqSum([r \in 1..Len(xs) |-> xs[r][1]]) \div Len(xs))

\* what rangeInfo returns (mcsas.py:1280-1291): the moments of every
\* repetition and their means; the deviations over the repetitions and the
\* partial intensities are left out
rangeInfoOf(weighting) ==
    LET R == Len(resultContribs)
        m == [r \in 1..R |->
                momentsOf(resultContribs[r], resultVolumeFraction[r],
                          resultNumberFraction[r], givenRange, weighting)]
    IN  [val |-> [r \in 1..R |-> m[r].val],
         mu |-> [r \in 1..R |-> m[r].mu],
         var |-> [r \in 1..R |-> m[r].var],
         skw |-> [r \in 1..R |-> m[r].skw],
         krt |-> [r \in 1..R |-> m[r].krt],
         totalValue |-> meanOverReps([r \in 1..R |-> m[r].val]),
         mean |-> meanOverReps([r \in 1..R |-> m[r].mu]),
         variance |-> meanOverReps([r \in 1..R |-> m[r].var]),
         skew |-> meanOverReps([r \in 1..R |-> m[r].skw]),
         kurtosis |-> meanOverReps([r \in 1..R |-> m[r].krt])]

\* a result is there, rangeInfo has not been called
InitRange ==
    /\ numContribs \in 1..MaxContribs
    /\ maxRetries = 0
    /\ startFromMinimum = FALSE
    /\ smearKind = "identity"
    /\ findBackground = TRUE
    /\ prior = <<>>
    /\ priors = <<>>
    /\ priorsflag = FALSE
    /\ priorsGiven = <<>>
    /\ stop = FALSE
    /\ pc = "done"
    /\ nr = 0
    /\ nt = 0
    /\ convergence = Inf
    /\ contributions = <<>>
    /\ result = <<>>
    /\ details = <<>>
    /\ rset = <<>>
    /\ vset = <<>>
    /\ it = <<>>
    /\ vst = 0
    /\ sc = <<NaN, NaN>>
    /\ conval = Inf
    /\ ri = 0
    /\ numIter = 0
    /\ numMoves = 0
    /\ numNotAccepted = 0
    /\ hist = <<>>
    /\ exitReason = "running"
    /\ mcFitCalls = 0
    /\ reached = FALSE
    /\ repsStarted = {}
    /\ repsCompleted = {}
    /\ accepted = <<>>
    /\ lastMove = "none"
    /\ iterated = FALSE
    /\ initTable = <<>>
    /\ memPc = "idle"
    /\ memA = <<>>
    /\ memB = <<>>
    /\ memFed = <<>>
    /\ dataIdle
    /\ \E R \in 1..MaxReps :
         /\ resultContribs \in ResultTables(numContribs, R)
         /\ resultVolumeFraction \in ResultFractions(numContribs, R)
         /\ resultNumberFraction \in
               {resultVolumeFraction, [r \in 1..R |-> [c \in 1..numContribs |-> 1]]}
    /\ givenRange \in RangesGiven
    /\ rangeInfoResult = [w \in {"volume", "number"} |-> <<>>]
    /\ paramValue = 0
    /\ paramValueRange = <<0, 0>>

\* McSAS.rangeInfo (mcsas.py:1180-1291), called with one of the weightings
\* or with one it does not know, for which it returns None
rangeInfo ==
    /\ \E weighting \in {"volume", "number", "intensity"} :
         IF weighting \in {"volume", "number"}
         THEN rangeInfoResult' =
                 [rangeInfoResult EXCEPT ![weighting] = rangeInfoOf(weighting)]
         ELSE UNCHANGED rangeInfoResult
    /\ UNCHANGED <<resultContribs, resultVolumeFraction, resultNumberFraction,
                   givenRange, paramVars, mainVars, memVars>>

NextRange == rangeInfo

SpecRange == InitRange /\ [][NextRange]_vars

\* ------------------------------------------------- ParameterNumerical
\* the numbers a caller may pass as a value or as a limit of a range; the
\* outermost two lie beyond rangeLimit, as inf and -inf do
ParamNumbers == {0 - 30000, 0 - 2, 0, 1, 3, 7, 30000}

\* the value after setValueRange has stored the range rg (parameter.py:
\* 214-217): raised to the lower limit, then lowered to the upper
clipValue(v, rg) ==
    LET raised == IF v < rg[1] THEN rg[1] ELSE v
    IN  IF raised > rg[2] THEN rg[2] ELSE raised

\* a parameter as the factory leaves it: a value, then a range of two
\* different limits within rangeLimit
InitParam ==
    /\ numContribs = MaxContribs
    /\ maxRetries = 0
    /\ startFromMinimum = FALSE
    /\ smearKind = "identity"
    /\ findBackground = TRUE
    /\ prior = <<>>
    /\ priors = <<>>
    /\ priorsflag = FALSE
    /\ priorsGiven = <<>>
    /\ stop = FALSE
    /\ pc = "done"
    /\ nr = 0
    /\ nt = 0
    /\ convergence = Inf
    /\ contributions = <<>>
    /\ result = <<>>
    /\ details = <<>>
    /\ rset = <<>>
    /\ vset = <<>>
    /\ it = <<>>
    /\ vst = 0
    /\ sc = <<NaN, NaN>>
    /\ conval = Inf
    /\ ri = 0
    /\ numIter = 0
    /\ numMoves = 0
    /\ numNotAccepted = 0
    /\ hist = <<>>
    /\ exitReason = "running"
    /\ mcFitCalls = 0
    /\ reached = FALSE
    /\ repsStarted = {}
    /\ repsCompleted = {}
    /\ accepted = <<>>
    /\ lastMove = "none"
    /\ iterated = FALSE
    /\ initTable = <<>>
    /\ memPc = "idle"
    /\ memA = <<>>
    /\ memB = <<>>
    /\ memFed = <<>>
    /\ dataIdle
    /\ resultContribs = <<>>
    /\ resultVolumeFraction = <<>>
    /\ resultNumberFraction = <<>>
    /\ givenRange = <<0, 0>>
    /\ rangeInfoResult = <<>>
    /\ \E v \in {0, 1, 3}, rg \in {<<0, 3>>, <<1, 7>>} :
         /\ paramValueRange = setValueRange(rg)
         /\ paramValue = clipValue(v, setValueRange(rg))

\* ParameterNumerical.setValue with a number (parameter.py:194-198 and
\* 121-125): the value is stored
ParameterNumerical_setValue ==
    /\ \E newValue \in ParamNumbers : paramValue' = newValue
    /\ UNCHANGED <<paramValueRange, rangeVars, mainVars, memVars>>

\* ParameterNumerical.setValueRange with two numbers (parameter.py:200-217):
\* the range is stored and the value brought inside it
ParameterNumerical_setValueRange ==
    /\ \E lo \in ParamNumbers, hi \in ParamNumbers :
         /\ paramValueRange' = setValueRange(<<lo, hi>>)
         /\ paramValue' = clipValue(paramValue, setValueRange(<<lo, hi>>))
    /\ UNCHANGED <<rangeVars, mainVars, memVars>>

NextParam ==
    \/ ParameterNumerical_setValue
    \/ ParameterNumerical_setValueRange

SpecParam == InitParam /\ [][NextParam]_vars

\* ================================================================= claims
inBounds(p) == valueRange[1] <= p /\ p <= valueRange[2]

\* sum over the rows of the table of ff^2 * V^2, from rset and vset
sumOfContribs ==
    [i \in 1..NumQ |->
        SeqSum([c \in 1..Len(rset) |-> contribIntensityOf(rset[c], vset[c])[i]])]

\* C1 (as stated): when analyse gives up on a repetition none of whose runs
\* reached the convergence criterion, mcFit has been called exactly
\* maxRetries + 2 times for that repetition.
C1_Original ==
    (exitReason = "gaveup" /\ ~reached) => mcFitCalls = maxRetries + 2

\* C2 (as stated): after a repetition has used up its attempts, calc ends with
\* every repetition run and with the converged repetitions in self.result.
C2_Original ==
    (pc = "done" /\ exitReason = "gaveup")
        => /\ repsStarted = 0..(numReps - 1)
           /\ Len(result) > 0

\* C2 (amended): once a repetition has used up its attempts analyse returns:
\* no further mcFit call is made, self.result stays empty (the repetitions
\* that did converge are dropped with it) and no histogram is made.
C2_GiveUpAbandonsAll ==
    exitReason = "gaveup"
        => /\ pc \in {"analysed", "done"}
           /\ repsStarted = 0..nr
           /\ Len(result) = 0
           /\ hist = <<>>

\* C2 witness: calc has ended after the second repetition used up its
\* attempts, the first one having converged.
C2_Witness ==
    /\ pc = "done"
    /\ exitReason = "gaveup"
    /\ repsCompleted = {0}
    /\ nr = 1

\* C3 (as stated): when analyse returns because of the stop flag, the tables of
\* the repetitions completed before are in self.result.
C3_Original ==
    (exitReason = "stopped" /\ repsCompleted # {})
        => /\ Len(result) > 0
           /\ \A r \in repsCompleted :
                result[1].contribs[r + 1] = contributions[r + 1]

\* C3 (amended): when analyse sees the stop flag after a run it returns at
\* once without storing anything: self.result stays empty, whatever number of
\* repetitions had been completed, and no histogram is made.
C3_StopStoresNothing ==
    exitReason = "stopped"
        => /\ pc \in {"analysed", "done"}
           /\ Len(result) = 0
           /\ hist = <<>>

\* C3 witness: stopped during the second repetition, the first one completed.
C3_Witness ==
    /\ pc = "done"
    /\ exitReason = "stopped"
    /\ repsCompleted = {0}
    /\ nr = 1

\* C4 (as stated): in every state of a run every value of the contribution
\* table lies inside the bounds of the parameter.
C4_Original ==
    pc \in {"fit", "ret"} => \A c \in 1..Len(rset) : inBounds(rset[c])

\* C5 (as stated): after initialisation and after every swap iteration the
\* total intensity is the sum over the rows of ff^2 * V^2, whatever the smear.
C5_Original ==
    pc = "fit" => it = sumOfContribs

\* C5 (amended): the same, for the identity smear (the default).
C5_ItIsSumOfContribs ==
    (pc = "fit" /\ smearKind = "identity") => it = sumOfContribs

\* C5 witness: identity smear, a run with an accepted and then a rejected move.
C5_Witness ==
    /\ pc = "fit"
    /\ smearKind = "identity"
    /\ numMoves >= 1
    /\ lastMove = "rejected"

\* C6 (as stated): after initialisation and after every swap iteration vst is
\* the sum of the squared volumes of the rows (up to the rounding of the
\* fixed-point square root, less than 1 per iteration).
C6_Original ==
    pc = "fit" => /\ vst - SumSq(vset) * VsScale <= numIter * VsScale
                  /\ SumSq(vset) * VsScale - vst <= numIter * VsScale

\* C7: the chi-squared values of the accepted moves of a run never increase,
\* and during the loop the current chi-squared is that of the last accepted
\* move.
C7_AcceptedChiMonotone ==
    /\ \A i \in 1..(Len(accepted) - 1) : ~RatLess(accepted[i], accepted[i + 1])
    /\ (pc = "fit" /\ Len(accepted) > 0) => conval = accepted[Len(accepted)]

\* C7 witness: two accepted moves in one run.
C7_Witness ==
    /\ pc = "fit"
    /\ Len(accepted) >= 2

\* C8: fed the same rows from the same initial table, the run with Memsave
\* and the run without take the same decisions and hold the same table,
\* volumes, total intensity, squared-volume sum and chi-squared, during the
\* loop and at the end.
C8_MemsaveAgrees ==
    memPc \in {"loop", "done"}
        => /\ memA.decisions = memB.decisions
           /\ memA.Rset = memB.Rset
           /\ memA.Vset = memB.Vset
           /\ memA.It = memB.It
           /\ memA.Vst = memB.Vst
           /\ memA.Conval = memB.Conval
           /\ memA.Niter = memB.Niter

\* C8 witness: both runs ended on a table of two rows after two iterations,
\* one of them an accepted move.
C8_Witness ==
    /\ memPc = "done"
    /\ Len(memA.Rset) = 2
    /\ Len(memA.decisions) = 2
    /\ \E i \in 1..2 : memA.decisions[i]

\* C9: a histogram exists only if analyse stored the results, and then every
\* one of the numReps repetitions ended with a converged run (or had nothing
\* to fit) and the histogram covers all of them.
C9_HistogramOnlyOnFullEnsemble ==
    hist # <<>>
        => /\ exitReason = "stored"
           /\ Len(result) > 0
           /\ repsCompleted = 0..(numReps - 1)
           /\ hist[1].reps = numReps

\* C9 witness: a histogram was made.
C9_Witness ==
    /\ pc = "done"
    /\ hist # <<>>
    /\ numContribs > 1

\* C10 (as stated): for every repetition the per-bin volume fractions add up
\* to the total volume fraction of the repetition.
C10_Original ==
    hist # <<>>
        => \A r \in 1..hist[1].reps :
              SeqSum(hist[1].volumeHistogramRepetitionsY[r])
                  = hist[1].totalVolumeFraction[r]

\* C12: the bin edges, bin centres and bin widths of the histogram and the
\* fitted q values are those given by the value range, the bin count, the
\* scale and the data set alone, whatever moves the MC runs made.
C12_HistogramXFromConfig ==
    hist # <<>>
        => LET edges == binEdges(valueRange[1], valueRange[2],
                                 hist[1].histogramXScale)
           IN  /\ hist[1].histogramXLowerEdge = edges
               /\ \A b \in 1..HistBins :
                    /\ hist[1].histogramXMean[b]
                          = (edges[b] + edges[b + 1]) \div 2
                    /\ hist[1].histogramXWidth[b] = edges[b + 1] - edges[b]
               /\ result[1].fitQ = Q

\* C12 witness: a histogram on the log scale after a run with an accepted
\* move.
C12_Witness ==
    /\ pc = "done"
    /\ hist # <<>>
    /\ hist[1].histogramXScale = "log"
    /\ numMoves >= 1

\* the prior configured for repetition r, repetitions counted from 0
fedTable(r) == priorsGiven[(r % Len(priorsGiven)) + 1]

\* C13 (as stated): an analysis fed a stack of priors that ends without a
\* swap iteration (and without a stop) has stored, for every repetition,
\* exactly the table it was fed.
C13_Original ==
    (pc = "done" /\ priorsflag /\ ~iterated /\ ~stop)
        => /\ Len(result) > 0
           /\ \A r \in 0..(numReps - 1) :
                result[1].contribs[r + 1] = fedTable(r)

\* a chi-squared that is a number
IsFinite(a) == a[2] # 0

\* C15 (as stated): a run whose fit gives a non-finite chi-squared is not
\* counted as converged: the swap loop does not end on it as on a reached
\* target, and no analysis is stored whose last repetition ended on it.
C15_Original ==
    /\ (pc = "fit" /\ Len(vset) > 1 /\ ~IsFinite(conval))
          => RatGreater(conval, minConvergence)
    /\ (exitReason = "stored" /\ numContribs > 1) => IsFinite(convergence)

\* the configuration or the data calc was called with is invalid: a range
\* with min >= max, columns of different lengths, a working uncertainty
\* that is not positive, or no point left by the masks
invalidInput ==
    \/ contribParamBounds[1] >= contribParamBounds[2]
    \/ ~sameLengths
    \/ \E k \in validIndices : k <= Len(uncertainty) /\ uncertainty[k] <= 0
    \/ (dataPc \in {"check", "analyse", "running"} /\ validIndices = {})

\* C14 (as stated): with an invalid configuration or invalid data calc
\* reports an error and starts no MC run.
C14_Original == invalidInput => dataPc # "running"

\* C16 (as stated): once the data set is built, the working uncertainty of
\* every point is the larger of the uncertainty loaded and eMin * |I|.
C16_Original ==
    dataPc \in {"clip", "check", "analyse", "running"}
        => \A k \in 1..Len(rawI) :
              LET floor == IF rawI[k] < 0 THEN eMin[1] * (0 - rawI[k])
                           ELSE eMin[1] * rawI[k]
                  loaded == eMin[2] * rawE[k]
              IN  uncertainty[k] = IF floor > loaded THEN floor ELSE loaded

\* A * x[i] / (vs / VsScale), the scaled model intensity at point i, in units
\* of 1/FracScale, rounded down
scaledIntensity(A, xi, vs) ==
    LET g1 == GCD(A[1], vs)
        g2 == GCD(VsScale, A[2])
        pn0 == (A[1] \div g1) * (VsScale \div g2)
        pd0 == (A[2] \div g2) * (vs \div g1)
        g == GCD(pn0, pd0)
        pn == pn0 \div g
        pd == pd0 \div g
    IN  ((pn * xi) \div pd) * FracScale + (((pn * xi) % pd) * FracScale) \div pd

\* csqr_v1(intObs, sc[0]*intCalc, intError): the reduced chi-squared of the
\* scaled model intensity alone, summed point by point
csqr_v1_scaled(A, x, vs) ==
    <<SeqSum([i \in 1..NumQ |->
         LET r == IntObs[i] * FracScale - scaledIntensity(A, x[i], vs)
         IN  Wt(i) * r * r]),
      NumQ * ErrProd2 * FracScale * FracScale>>

\* |c - d| is within 1/50, the rounding of the point-by-point sum
chiAgrees(c, d) ==
    LET tol == d[2] \div 50
        lo == IF d[1] > tol THEN d[1] - tol ELSE 0
    IN  /\ ~FracLess(d[1] + tol, d[2], c[1], c[2])
        /\ ~FracLess(c[1], c[2], lo, d[2])

\* C17: with findBackground off every fit leaves the background at 0, and
\* the chi-squared of the run is that of the scaled model intensity alone.
C17_NoBackgroundMeansZero ==
    (~findBackground /\ repsStarted # {})
        => /\ sc[2] = <<0, 1>>
           /\ (pc = "fit" /\ IsFinite(conval))
                 => chiAgrees(conval, csqr_v1_scaled(sc[1], it, vst))

\* a fit without background has been made after an accepted move
C17_Witness ==
    /\ ~findBackground
    /\ pc = "fit"
    /\ numMoves >= 1
    /\ IsFinite(conval)
    /\ conval[1] > 0

\* the steps calc may still take are bounded by this measure: the runs left
\* to analyse, each counted with the steps of one run, and the steps left to
\* the run in hand
stepsLeft ==
    LET perRun == maxIterations + 3
        runsLeft == (numReps - nr) * (maxRetries + 2) - nt
        inRun == IF pc = "fit" THEN 2 + (maxIterations - numIter)
                 ELSE IF pc = "ret" THEN 1
                 ELSE 0
    IN  IF pc = "done" THEN 0
        ELSE IF pc = "analysed" THEN 1
        ELSE 2 + runsLeft * perRun + inRun

\* C18: a MC run makes at most maxIterations swap iterations, a repetition
\* takes at most maxRetries + 1 runs, there are at most numReps repetitions,
\* and calc comes to its end whatever the runs give: every step of it lowers
\* a measure that is never negative and is 0 only when calc is done.
C18_BoundedAndTerminates ==
    /\ [](numIter <= maxIterations)
    /\ [](mcFitCalls <= maxRetries + 1)
    /\ [](nr < numReps)
    /\ [](stepsLeft >= 0)
    /\ [](stepsLeft = 0 <=> pc = "done")
    /\ [][Progress => stepsLeft' < stepsLeft]_vars

\* a run has used up its iterations, the repetition its runs, and analyse
\* has given up with no stop requested
C18_Witness ==
    /\ pc = "done"
    /\ exitReason = "gaveup"
    /\ ~stop
    /\ ~reached
    /\ numIter = maxIterations
    /\ mcFitCalls = maxRetries + 1

\* C19 (as stated): a run initialised from a prior whose number of rows
\* differs from numContribs starts from a table of exactly numContribs rows,
\* each of them a row of the prior.
C19_Original ==
    (pc = "fit" /\ numIter = 0 /\ prior # <<>> /\ Len(prior) # numContribs)
        => /\ Len(initTable) = numContribs
           /\ \A c \in 1..Len(initTable) :
                 \E m \in 1..Len(prior) : initTable[c] = prior[m]

\* C20 (as stated): with a stack of priors and no single prior, every run of
\* repetition r, the first and each retry, starts from prior r mod L of the
\* stack as configured.
C20_Original ==
    (priorsflag /\ pc \in {"fit", "ret"}) => initTable = fedTable(nr)

\* C21: a run on a table of a single row makes no swap iteration and leaves
\* the table as it started; with numContribs = 1 analyse makes one mcFit call
\* per repetition, never retries or gives up, and goes from the return of
\* the run to the next repetition (or to storing the results) whatever the
\* chi-squared.
C21_SingleRowNoSwapNoRetry ==
    /\ []((pc \in {"fit", "ret"} /\ Len(rset) = 1)
            => (numIter = 0 /\ numMoves = 0 /\ rset = initTable))
    /\ [](numContribs = 1
            => /\ mcFitCalls <= 1
               /\ nt <= 1
               /\ pc = "ret" => mcFitCalls = 1
               /\ exitReason \notin {"gaveup", "stopped"})
    /\ [][(numContribs = 1 /\ pc = "ret" /\ pc' # "ret")
            => \/ (pc' = "call" /\ nr' = nr + 1 /\ nt' = 0)
               \/ (pc' = "analysed" /\ nr = numReps - 1
                     /\ exitReason' = "stored")]_vars

\* the second repetition is about to start after a first run on one row whose
\* chi-squared is above the criterion
C21_Witness ==
    /\ numContribs = 1
    /\ pc = "call"
    /\ nr = 1
    /\ Len(rset) = 1
    /\ numIter = 0
    /\ RatGreater(conval, minConvergence)

\* C22: during a run the swap index is the number of iterations made modulo
\* the number of rows, after accepted and after rejected moves alike, and
\* always a valid row index.
C22_SwapIndexCycles ==
    pc \in {"fit", "ret"}
        => /\ 0 <= ri
           /\ ri < Len(rset)
           /\ ri = numIter % Len(rset)

\* the index is back at the first row after an accepted and a rejected move
\* on a table of two rows
C22_Witness ==
    /\ pc = "fit"
    /\ Len(rset) = 2
    /\ numIter = 2
    /\ numMoves = 1
    /\ ri = 0

\* C23: a swap iteration that accepts no move leaves the contribution table,
\* the volumes, the total intensity, the squared-volume sum, the scaling and
\* background and the current chi-squared as they were (and with them the
\* prior, the priors and what analyse holds); the swap index and the
\* iteration counter advance and the non-accepted counter goes up by one.
C23_RejectedMoveChangesNothing ==
    [][(pc = "fit" /\ numIter' = numIter + 1 /\ numMoves' = numMoves)
          => /\ UNCHANGED <<rset, vset, it, vst, sc, conval>>
             /\ UNCHANGED <<prior, priors, driverVars, pc>>
             /\ ri' = (ri + 1) % Len(rset)
             /\ numNotAccepted' = numNotAccepted + 1]_vars

\* a move has been rejected after an accepted one
C23_Witness ==
    /\ pc = "fit"
    /\ lastMove = "rejected"
    /\ numMoves = 1
    /\ numIter = 2
    /\ numNotAccepted = 1

\* C24 (as stated): once the stop flag is set no swap iteration is made any
\* more and analyse calls mcFit no more.
C24_Original ==
    [][stop => /\ numIter' # numIter + 1
               /\ mcFitCalls' <= mcFitCalls
               /\ ~(pc = "call" /\ pc' = "fit")]_vars

\* the sum of the weights w of the contributions of table rs whose value
\* lies in the closed range rg
closedRangeSum(rs, w, rg) ==
    LET lo == IF rg[1] <= rg[2] THEN rg[1] ELSE rg[2]
        hi == IF rg[1] <= rg[2] THEN rg[2] ELSE rg[1]
    IN  SeqSum([c \in 1..Len(rs) |->
                  IF lo <= rs[c] /\ rs[c] <= hi THEN w[c] ELSE 0])

\* C25 (as stated): the total value of a repetition over the range [a, b] is
\* the sum of the weights of the contributions with a <= p <= b, those on a
\* and on b included.
C25_Original ==
    /\ rangeInfoResult["volume"] # <<>>
          => \A r \in 1..Len(resultContribs) :
                rangeInfoResult["volume"].val[r]
                   = Fp(closedRangeSum(resultContribs[r],
                                       resultVolumeFraction[r], givenRange)
                          * MomentScale)
    /\ rangeInfoResult["number"] # <<>>
          => \A r \in 1..Len(resultContribs) :
                rangeInfoResult["number"].val[r]
                   = Fp(closedRangeSum(resultContribs[r],
                                       resultNumberFraction[r], givenRange)
                          * MomentScale)

\* C26 (as stated): with equal volume and number fractions the kurtosis of
\* every repetition is the same for the two weightings.
C26_Original ==
    (/\ rangeInfoResult["volume"] # <<>>
     /\ rangeInfoResult["number"] # <<>>
     /\ resultVolumeFraction = resultNumberFraction)
        => \A r \in 1..Len(resultContribs) :
              rangeInfoResult["volume"].krt[r] = rangeInfoResult["number"].krt[r]

\* C27 (as stated): analyse gives up on a repetition only if the run it has
\* just made did not meet the convergence criterion; a run that met it is
\* taken, whatever the number of attempts and whatever maxRetries.
C27_Original ==
    exitReason = "gaveup" => RatGreater(convergence, minConvergence)

\* C28 (as stated): a run leaves the prior it was started from as it was, and
\* the stack of priors stays as the caller configured it.
C28_Original ==
    /\ priors = priorsGiven
    /\ (pc \in {"fit", "ret"} /\ prior # <<>>) => prior = initTable

\* C29: in a run 0 <= numMoves <= numIter <= maxIterations; numNotAccepted
\* starts at 0, is set to 0 by an accepted move and goes up by one with
\* every rejected move, so it counts the rejected moves since the last
\* accepted one and is at most numIter - numMoves; the details analyse gets
\* from the run hold numIter and numMoves as they are at its end.
C29_CountersConsistent ==
    /\ [](pc \in {"fit", "ret"}
            => /\ 0 <= numMoves
               /\ numMoves <= numIter
               /\ numIter <= maxIterations
               /\ 0 <= numNotAccepted
               /\ numNotAccepted <= numIter - numMoves
               /\ numMoves = Len(accepted)
               /\ lastMove = "accepted" => numNotAccepted = 0
               /\ lastMove = "rejected" => numNotAccepted >= 1)
    /\ [](pc = "ret" => details = [numIterations |-> numIter,
                                   numMoves |-> numMoves])
    /\ [][(pc = "call" /\ pc' = "fit")
            => (numIter' = 0 /\ numMoves' = 0 /\ numNotAccepted' = 0)]_vars
    /\ [][(numIter' = numIter + 1)
            => \/ (numMoves' = numMoves + 1 /\ numNotAccepted' = 0)
               \/ (numMoves' = numMoves
                     /\ numNotAccepted' = numNotAccepted + 1)]_vars

\* a run has returned after an accepted and then a rejected move
C29_Witness ==
    /\ pc = "ret"
    /\ details = [numIterations |-> 2, numMoves |-> 1]
    /\ numNotAccepted = 1
    /\ lastMove = "rejected"

\* C30 (as stated): whatever setValue and setValueRange calls were made, the
\* stored range has min <= max and the stored value lies inside it.
C30_Original ==
    /\ paramValueRange[1] <= paramValueRange[2]
    /\ paramValueRange[1] <= paramValue
    /\ paramValue <= paramValueRange[2]

============================================================================
